---- MODULE Spec2Model ----
(***************************************************************************)
(* EvoRAG: ingestion into the vector store (ingestion.py), the query path  *)
(* (rag_service.py, api.py) and the background judging task (tasks.py,     *)
(* llm_judge.py).                                                          *)
(*                                                                         *)
(* Texts are abstracted to spans of words: [base, off, len] is the len     *)
(* words starting at word off of the text numbered base.  Whitespace       *)
(* inside a text is not represented.                                       *)
(***************************************************************************)
EXTENDS Integers, Sequences, FiniteSets, TLC

VARIABLES
    exists,      \* the Qdrant collection COLLECTION_NAME exists
    store,       \* the points of the collection (set of point records, ids unique)
    pcInit,      \* position of each IngestionPipeline constructor in setup_qdrant_collection
    current,     \* history: per source, the document of its last completed upsert, or NoDoc
    lastOp,      \* history: the last ingestion-side call and how it ended
    citeIn,      \* generate_answer: the response text of the synthesis call
    citeOut,     \* generate_answer: what it returns for citeIn, once parsed
    call,        \* RAGService.ask: the call in progress, its position and locals
    reqs,        \* /ask handler: per request, its position, ask's result, the response
    queue,       \* the task queue: judge_and_log_task jobs enqueued and not yet taken
    worker,      \* the worker: its position in judge_and_log_task, the job, the evaluation
    judge,       \* tasks.judge: the LLMJudge singleton has been constructed
    log,         \* evaluation_logs.jsonl, one record per line
    chunkIn,     \* create_semantic_chunks_from_docs: the elements of doc.iterate_items()
    chunkOut     \* create_semantic_chunks_from_docs: chunks_with_metadata, once returned

ingestVars == <<exists, store, pcInit, current, lastOp>>
citeVars == <<citeIn, citeOut>>
chunkVars == <<chunkIn, chunkOut>>
askVars == <<call>>
evalVars == <<reqs, queue, worker, judge, log>>

----------------------------------------------------------------------------
(* Configuration, ingestion.py lines 9-17 *)

MAX_CHUNK_WORDS == 500
MIN_CHUNK_WORDS == 5
ADD_CONTEXT_PREFIX == FALSE

(* Bounds of the model *)
MaxTextLen == 6        \* characters of a synthesized response text
MaxRequests == 2       \* /ask requests per behaviour
MaxElems == 3          \* elements of a document handed to the chunker

Sources == {"a.pdf", "b.pdf"}
Pipelines == {1, 2}

----------------------------------------------------------------------------
(* Texts and document elements *)

Text(b, n) == [base |-> b, off |-> 0, len |-> n]

\* current_heading = "Introduction": the placeholder is text number 0
DefaultHeading == Text(0, 1)

Heading(b, n)  == [kind |-> "heading", text |-> Text(b, n)]
Para(b, n)     == [kind |-> "text", text |-> Text(b, n)]
ListItem(b, n) == [kind |-> "list", text |-> Text(b, n)]
Other(b, n)    == [kind |-> "other", text |-> Text(b, n)]

\* len(text.split())
WordCount(t) == t.len

\* hashlib.md5(sub_text.encode()).hexdigest()[:16]: a digest of the content.
\* Positional, hence collision-free on the bounded texts of the model, as the
\* truncated MD5 is with overwhelming probability.
TextHash(t) == t.base * 4194304 + t.off * 2048 + t.len

\* MUTANT of GenerateDeterministicId: an id drawn from the collection's point
\* count, so that a later run of the same file gets other ids
GenerateCountingId(source, chunk_index, text_hash) ==
    [ns |-> source, name |-> <<chunk_index + Cardinality(store), text_hash>>]

\* uuid5(uuid5(NAMESPACE_DNS, source), f"{chunk_index}::{text_hash}")
GenerateDeterministicId(source, chunk_index, text_hash) ==
    [ns |-> source, name |-> <<chunk_index, text_hash>>]

RECURSIVE SplitWords(_, _, _, _)
\* the loop of _split_large_chunk: greedy packing of max_words words per chunk,
\* the remaining words last
SplitWords(t, off, remaining, max_words) ==
    IF remaining = 0 THEN <<>>
    ELSE IF remaining >= max_words
         THEN <<[base |-> t.base, off |-> off, len |-> max_words]>>
              \o SplitWords(t, off + max_words, remaining - max_words, max_words)
         ELSE <<[base |-> t.base, off |-> off, len |-> remaining]>>

\* MUTANT of SplitLargeChunk: the text is returned whole, whatever its length
SplitLargeChunkWhole(t, max_words) == <<t>>

SplitLargeChunk(t, max_words) ==
    IF WordCount(t) <= max_words THEN <<t>>
    ELSE SplitWords(t, t.off, t.len, max_words)

\* contextual_text: the sub text, under a Source/Section prefix when enabled
ContextualText(source, heading, sub) ==
    IF ADD_CONTEXT_PREFIX
    THEN [prefix |-> <<[src |-> source, section |-> heading]>>, body |-> sub]
    ELSE [prefix |-> <<>>, body |-> sub]

\* one chunk_data dictionary, flattened as process_document flattens it into the
\* point: id, payload['text'] and the metadata (the page reference is left out)
ChunkData(source, heading, chunk_index, sub) ==
    [id |-> GenerateDeterministicId(source, chunk_index, TextHash(sub)),
     text |-> ContextualText(source, heading, sub),
     source |-> source,
     heading |-> heading,
     chunk_index |-> chunk_index]

RECURSIVE SubChunksOneIndex(_, _, _, _, _)
\* MUTANT of SubChunks: chunk_index is not incremented inside the loop
SubChunksOneIndex(subs, k, source, heading, chunk_index) ==
    IF k > Len(subs) THEN <<>>
    ELSE <<ChunkData(source, heading, chunk_index, subs[k])>>
         \o SubChunksOneIndex(subs, k + 1, source, heading, chunk_index)

RECURSIVE SubChunks(_, _, _, _, _)
\* the inner loop over text_chunks: one chunk per sub text, consecutive indexes
SubChunks(subs, k, source, heading, chunk_index) ==
    IF k > Len(subs) THEN <<>>
    ELSE <<ChunkData(source, heading, chunk_index, subs[k])>>
         \o SubChunks(subs, k + 1, source, heading, chunk_index + 1)

RECURSIVE ChunkFrom(_, _, _, _, _)
\* the loop over doc.iterate_items() from element i on
ChunkFrom(doc, i, source, heading, chunk_index) ==
    IF i > Len(doc) THEN <<>>
    ELSE LET el == doc[i] IN
         IF el.kind = "heading"
         THEN ChunkFrom(doc, i + 1, source, el.text, chunk_index)
         ELSE IF el.kind \notin {"text", "list"}
         THEN ChunkFrom(doc, i + 1, source, heading, chunk_index)
         ELSE IF WordCount(el.text) = 0 \/ WordCount(el.text) < MIN_CHUNK_WORDS
         THEN ChunkFrom(doc, i + 1, source, heading, chunk_index)
         ELSE LET subs == SplitLargeChunk(el.text, MAX_CHUNK_WORDS)
                  made == SubChunks(subs, 1, source, heading, chunk_index)
              IN made \o ChunkFrom(doc, i + 1, source, heading,
                                   chunk_index + Len(made))

CreateSemanticChunksFromDocs(doc, source) ==
    ChunkFrom(doc, 1, source, DefaultHeading, 0)

Range(seq) == {seq[i] : i \in 1..Len(seq)}

IdsOf(chunks) == [i \in 1..Len(chunks) |-> chunks[i].id]

NotChunked == [done |-> FALSE, chunks |-> <<>>]

ChunkIdle ==
    /\ chunkIn = <<>>
    /\ chunkOut = NotChunked

\* one call of create_semantic_chunks_from_docs on the element stream chunkIn
ChunkStep ==
    /\ ~chunkOut.done
    /\ chunkOut' = [done |-> TRUE,
                    chunks |-> CreateSemanticChunksFromDocs(chunkIn, "a.pdf")]
    /\ UNCHANGED <<chunkIn, ingestVars, citeVars, askVars, evalVars>>

----------------------------------------------------------------------------
(* The vector store, as the Qdrant client calls of ingestion.py use it *)

\* qd_client.upsert(points): insert, or overwrite the point of the same id
Upsert(st, points) ==
    {p \in st : \A q \in points : q.id # p.id} \cup points

\* qd_client.scroll(scroll_filter = source == s, limit = 1)[0]
Scroll(st, s) == {p \in st : p.source = s}

\* MUTANT of DeleteByFilter: the delete call carries no filter
DeleteEverything(st, s) == {}

\* qd_client.delete(points_selector = filter source == s)
DeleteByFilter(st, s) == {p \in st : p.source # s}

----------------------------------------------------------------------------
(* Response texts of the generative model: sequences of characters, the     *)
(* literal "Citations:" being one character, "K".                           *)

Chars == {"a", "-", " ", "\n", "K"}
Whitespace == {" ", "\n"}
Delimiter == <<"\n", "K">>      \* "\nCitations:"

RECURSIVE SeqsUpTo(_, _)
SeqsUpTo(S, n) ==
    IF n = 0 THEN {<<>>}
    ELSE LET shorter == SeqsUpTo(S, n - 1)
         IN shorter \cup {Append(q, x) : q \in shorter, x \in S}

RECURSIVE LStrip(_, _)
\* str.lstrip(chars): drop every leading character that is in chars
LStrip(t, chars) ==
    IF t # <<>> /\ Head(t) \in chars THEN LStrip(Tail(t), chars) ELSE t

RECURSIVE RStrip(_, _)
RStrip(t, chars) ==
    IF t # <<>> /\ t[Len(t)] \in chars
    THEN RStrip(SubSeq(t, 1, Len(t) - 1), chars)
    ELSE t

\* str.strip()
Strip(t) == RStrip(LStrip(t, Whitespace), Whitespace)

StartsWith(t, d) == Len(t) >= Len(d) /\ SubSeq(t, 1, Len(d)) = d

Drop(t, n) == SubSeq(t, n + 1, Len(t))

\* d in t
Contains(t, d) == \E i \in 1..(Len(t) - Len(d) + 1) : SubSeq(t, i, i + Len(d) - 1) = d

RECURSIVE SplitFrom(_, _, _)
SplitFrom(t, d, cur) ==
    IF t = <<>> THEN <<cur>>
    ELSE IF StartsWith(t, d) THEN <<cur>> \o SplitFrom(Drop(t, Len(d)), d, <<>>)
    ELSE SplitFrom(Tail(t), d, Append(cur, Head(t)))

\* str.split(d): the parts between the occurrences of d, left to right
Split(t, d) == SplitFrom(t, d, <<>>)

RECURSIVE CitedLines(_, _)
\* [line.strip().lstrip('- ').strip() for line in lines if line.strip()]
CitedLines(lines, k) ==
    IF k > Len(lines) THEN <<>>
    ELSE IF Strip(lines[k]) = <<>> THEN CitedLines(lines, k + 1)
    ELSE <<Strip(LStrip(Strip(lines[k]), {"-", " "}))>> \o CitedLines(lines, k + 1)

\* generate_answer, lines 118-132: the answer and the cited documents of a
\* response text
ParseResponse(full_text) ==
    IF Contains(full_text, Delimiter)
    THEN LET parts == Split(full_text, Delimiter)
             citations_text == Strip(parts[2])
         IN [answer |-> Strip(parts[1]),
             cited_docs |-> CitedLines(Split(citations_text, <<"\n">>), 1)]
    ELSE [answer |-> Strip(full_text), cited_docs |-> <<>>]

NotParsed == [done |-> FALSE, answer |-> <<>>, cited_docs |-> <<>>]

CiteIdle ==
    /\ citeIn = <<>>
    /\ citeOut = NotParsed

\* the parsing branch of generate_answer applied to one response text
ParseStep ==
    /\ ~citeOut.done
    /\ LET r == ParseResponse(citeIn)
       IN citeOut' = [done |-> TRUE, answer |-> r.answer, cited_docs |-> r.cited_docs]
    /\ UNCHANGED <<citeIn, chunkVars, ingestVars, askVars, evalVars>>

----------------------------------------------------------------------------
(* RAGService: rewrite_query, retrieve_context, generate_answer, ask *)

TOP_K == 7

Queries == {"q"}

\* what the rewrite model call can come to: an exception, or a response text
\* that is no JSON, JSON but no object, an object without the key, or an object
\* whose "rewritten_query" is a string or null
RewriteResponses ==
    {[kind |-> k, value |-> ""] :
        k \in {"error", "not_json", "json_not_object", "json_no_key"}}
    \cup {[kind |-> "json_string", value |-> "q rewritten"],
          [kind |-> "json_null", value |-> "<null>"]}

\* MUTANT of RewriteQuery: no fallback value, the failure propagates
RewriteQueryNoFallback(query, resp) ==
    IF resp.kind \in {"error", "not_json", "json_not_object"}
    THEN [raised |-> TRUE, value |-> ""]
    ELSE IF resp.kind = "json_no_key" THEN [raised |-> FALSE, value |-> ""]
    ELSE [raised |-> FALSE, value |-> resp.value]

\* rewrite_query: generate_content, json.loads and .get raise into the except
\* branch, which returns the query; .get defaults to the query
RewriteQuery(query, resp) ==
    IF resp.kind \in {"error", "not_json", "json_not_object"}
    THEN [raised |-> FALSE, value |-> query]
    ELSE IF resp.kind = "json_no_key" THEN [raised |-> FALSE, value |-> query]
    ELSE [raised |-> FALSE, value |-> resp.value]

Min(a, b) == IF a < b THEN a ELSE b

\* what qdrant_client.search(limit = top_k) can return: the nearest points,
\* in an order the vectors decide
SearchResults(st, top_k) ==
    LET n == Min(top_k, Cardinality(st))
    IN {h \in [1..n -> st] : \A i, j \in 1..n : h[i] = h[j] => i = j}

RetrieveFailures == {"none", "embed", "info", "search"}

\* retrieve_context: nothing is caught; the context has one block per hit
RetrieveContext(hits, fail) ==
    IF fail # "none" \/ ~exists
    THEN [raised |-> TRUE, context |-> <<>>, sources |-> {}]
    ELSE [raised |-> FALSE,
          context |-> [i \in 1..Len(hits) |->
                          [source |-> hits[i].source, text |-> hits[i].text]],
          sources |-> {hits[i].source : i \in 1..Len(hits)}]

NoInfoAnswer ==
    <<"I could not find any relevant information in the provided documents to answer your question.">>
ErrorAnswer == <<"An error occurred while generating the answer">>

SynthResponses ==
    {[kind |-> "error", text |-> <<>>],
     [kind |-> "text", text |-> <<"a">>],
     [kind |-> "text", text |-> <<"a", "\n", "K", "\n", "-", " ", "a">>]}

\* MUTANT of GenerateAnswer: the except branch is missing
GenerateAnswerNoCatch(query, context, resp) ==
    IF context = <<>>
    THEN [raised |-> FALSE, answer |-> NoInfoAnswer, cited_docs |-> <<>>, calls |-> 0]
    ELSE IF resp.kind = "error"
    THEN [raised |-> TRUE, answer |-> <<>>, cited_docs |-> <<>>, calls |-> 1]
    ELSE [raised |-> FALSE, answer |-> ParseResponse(resp.text).answer,
          cited_docs |-> ParseResponse(resp.text).cited_docs, calls |-> 1]

\* MUTANT of GenerateAnswer: the empty-context test is missing
GenerateAnswerAlwaysCalls(query, context, resp) ==
    IF resp.kind = "error"
    THEN [raised |-> FALSE, answer |-> ErrorAnswer, cited_docs |-> <<>>, calls |-> 1]
    ELSE [raised |-> FALSE, answer |-> ParseResponse(resp.text).answer,
          cited_docs |-> ParseResponse(resp.text).cited_docs, calls |-> 1]

\* generate_answer; calls counts its generate_content calls
GenerateAnswer(query, context, resp) ==
    IF context = <<>>
    THEN [raised |-> FALSE, answer |-> NoInfoAnswer, cited_docs |-> <<>>, calls |-> 0]
    ELSE IF resp.kind = "error"
    THEN [raised |-> FALSE, answer |-> ErrorAnswer, cited_docs |-> <<>>, calls |-> 1]
    ELSE [raised |-> FALSE, answer |-> ParseResponse(resp.text).answer,
          cited_docs |-> ParseResponse(resp.text).cited_docs, calls |-> 1]

NoCall ==
    [pc |-> "idle", original_query |-> "", rewrite_kind |-> "", rewritten_query |-> "",
     searched |-> "", context |-> <<>>, sources |-> {}, synth_kind |-> "",
     synth_calls |-> 0, raised_at |-> "", result |-> <<>>]

AskIdle == call = NoCall

\* ask, line 145
AskRewrite(q, resp) ==
    /\ call.pc \in {"idle", "returned", "raised"}
    /\ LET r == RewriteQuery(q, resp)
       IN call' = IF r.raised
                  THEN [NoCall EXCEPT !.pc = "raised", !.original_query = q,
                                      !.rewrite_kind = resp.kind,
                                      !.raised_at = "rewrite"]
                  ELSE [NoCall EXCEPT !.pc = "rewritten", !.original_query = q,
                                      !.rewrite_kind = resp.kind,
                                      !.rewritten_query = r.value]
    /\ UNCHANGED <<ingestVars, citeVars, chunkVars, evalVars>>

\* ask, line 146
AskRetrieve(hits, fail) ==
    /\ call.pc = "rewritten"
    /\ LET r == RetrieveContext(hits, fail)
       IN call' = IF r.raised
                  THEN [call EXCEPT !.pc = "raised", !.searched = call.rewritten_query,
                                    !.raised_at = "retrieve"]
                  ELSE [call EXCEPT !.pc = "retrieved",
                                    !.searched = call.rewritten_query,
                                    !.context = r.context, !.sources = r.sources]
    /\ UNCHANGED <<ingestVars, citeVars, chunkVars, evalVars>>

\* ask, lines 147-156
AskGenerate(resp) ==
    /\ call.pc = "retrieved"
    /\ LET g == GenerateAnswer(call.original_query, call.context, resp)
       IN call' = IF g.raised
                  THEN [call EXCEPT !.pc = "raised", !.synth_kind = resp.kind,
                                    !.synth_calls = g.calls, !.raised_at = "generate"]
                  ELSE [call EXCEPT
                          !.pc = "returned",
                          !.synth_kind = resp.kind,
                          !.synth_calls = g.calls,
                          !.result = <<[original_query |-> call.original_query,
                                        rewritten_query |-> call.rewritten_query,
                                        context |-> call.context,
                                        answer |-> g.answer,
                                        cited_docs |-> g.cited_docs,
                                        referenced_docs |-> call.sources]>>]
    /\ UNCHANGED <<ingestVars, citeVars, chunkVars, evalVars>>

----------------------------------------------------------------------------
(* The /ask handler (api.py), the task queue, and judge_and_log_task        *)
(* (tasks.py) with LLMJudge.judge_answer (llm_judge.py)                     *)

Requests == 1..MaxRequests

\* ask as one call: rewrite, retrieve, generate, in this order
Ask(q, rewrite, hits, fail, synth) ==
    LET rw == RewriteQuery(q, rewrite)
        rc == RetrieveContext(hits, fail)
        ga == GenerateAnswer(q, rc.context, synth)
    IN IF rw.raised \/ rc.raised \/ ga.raised
       THEN [raised |-> TRUE, result |-> <<>>]
       ELSE [raised |-> FALSE,
             result |-> <<[original_query |-> q,
                           rewritten_query |-> rw.value,
                           context |-> rc.context,
                           answer |-> ga.answer,
                           cited_docs |-> ga.cited_docs,
                           referenced_docs |-> rc.sources]>>]

NewRequest == [pc |-> "new", result |-> <<>>, response |-> <<>>]
IdleWorker == [pc |-> "idle", job |-> <<>>, evaluation |-> <<>>]

EvalIdle ==
    /\ reqs = [r \in Requests |-> NewRequest]
    /\ queue = <<>>
    /\ worker = IdleWorker
    /\ judge = FALSE
    /\ log = <<>>

\* ask_question, line 66: result = rag_service.ask(request.query); an exception
\* of ask ends the request without an answer
HandleAsk(r, q, rewrite, hits, fail, synth) ==
    /\ reqs[r].pc = "new"
    /\ LET a == Ask(q, rewrite, hits, fail, synth)
       IN reqs' = [reqs EXCEPT ![r] =
                      IF a.raised
                      THEN [@ EXCEPT !.pc = "failed"]
                      ELSE [@ EXCEPT !.pc = "asked", !.result = a.result]]
    /\ UNCHANGED <<queue, worker, judge, log, ingestVars, citeVars, chunkVars, askVars>>

\* ask_question, lines 68-76: judge_and_log_task.delay(...) puts the job on the
\* queue and returns
Enqueue(r) ==
    /\ reqs[r].pc = "asked"
    /\ LET res == reqs[r].result[1]
       IN queue' = Append(queue,
                     [req |-> r,
                      original_query |-> res.original_query,
                      rewritten_query |-> res.rewritten_query,
                      context |-> res.context,
                      generation_results |->
                          [answer |-> res.answer, cited_docs |-> res.cited_docs]])
    /\ reqs' = [reqs EXCEPT ![r].pc = "enqueued"]
    /\ UNCHANGED <<worker, judge, log, ingestVars, citeVars, chunkVars, askVars>>

LogCount(r) == Cardinality({i \in 1..Len(log) : log[i].req = r})

\* MUTANT of CanRespond: the handler waits for the task's outcome
CanRespondAfterTask(r) == reqs[r].pc = "enqueued" /\ LogCount(r) > 0

\* ask_question, line 77: the return follows the delay call directly
CanRespond(r) == reqs[r].pc = "enqueued"

\* ask_question, lines 77-81
Respond(r) ==
    /\ CanRespond(r)
    /\ LET res == reqs[r].result[1]
       IN reqs' = [reqs EXCEPT
                     ![r].pc = "responded",
                     ![r].response = <<[answer |-> res.answer,
                                        cited_docs |-> res.cited_docs,
                                        referenced_docs |-> res.referenced_docs]>>]
    /\ UNCHANGED <<queue, worker, judge, log, ingestVars, citeVars, chunkVars, askVars>>

\* the worker side of the queue: the registered handler is invoked once with
\* the arguments of each enqueued job; get_judge() builds the judge on first use
WorkerTake ==
    /\ worker.pc = "idle"
    /\ queue # <<>>
    /\ worker' = [pc |-> "judging", job |-> <<Head(queue)>>, evaluation |-> <<>>]
    /\ queue' = Tail(queue)
    /\ judge' = TRUE
    /\ UNCHANGED <<reqs, log, ingestVars, citeVars, chunkVars, askVars>>

\* what the judge model call can come to: an exception, or a response text that
\* is no JSON, JSON of another shape, or the evaluation object asked for
JudgeOutcomes == {"error", "not_json", "json_other", "json_evaluation"}

SentinelEvaluation ==
    [error |-> TRUE,
     query_evaluation |-> [score |-> 0, identified_issue |-> "JUDGE_FAILURE"],
     answer_evaluation |-> [relevance_score |-> 0, correctness_score |-> 0,
                            completeness_score |-> 0,
                            identified_issue |-> "JUDGE_FAILURE"]]

ParsedEvaluation ==
    [error |-> FALSE,
     query_evaluation |-> [score |-> 4, identified_issue |-> "NONE"],
     answer_evaluation |-> [relevance_score |-> 5, correctness_score |-> 4,
                            completeness_score |-> 3,
                            identified_issue |-> "INCOMPLETE"]]

\* a JSON value that is not the evaluation object, as json.loads returns it
OtherJson == [other |-> TRUE]

\* MUTANT of JudgeAnswer: the except branch is missing
JudgeAnswerNoCatch(outcome) ==
    IF outcome \in {"error", "not_json"}
    THEN [raised |-> TRUE, evaluation |-> <<>>]
    ELSE IF outcome = "json_other"
    THEN [raised |-> FALSE, evaluation |-> <<OtherJson>>]
    ELSE [raised |-> FALSE, evaluation |-> <<ParsedEvaluation>>]

\* judge_answer: whatever json.loads returns, or the sentinel on any exception
JudgeAnswer(outcome) ==
    IF outcome \in {"error", "not_json"}
    THEN [raised |-> FALSE, evaluation |-> <<SentinelEvaluation>>]
    ELSE IF outcome = "json_other"
    THEN [raised |-> FALSE, evaluation |-> <<OtherJson>>]
    ELSE [raised |-> FALSE, evaluation |-> <<ParsedEvaluation>>]

\* judge_and_log_task, lines 27-33; an exception ends the task
WorkerJudge(outcome) ==
    /\ worker.pc = "judging"
    /\ LET j == JudgeAnswer(outcome)
       IN worker' = IF j.raised
                    THEN IdleWorker
                    ELSE [worker EXCEPT !.pc = "logging", !.evaluation = j.evaluation]
    /\ UNCHANGED <<reqs, queue, judge, log, ingestVars, citeVars, chunkVars, askVars>>

\* judge_and_log_task, lines 35-43, and _log_evaluation: one line appended
WorkerLog ==
    /\ worker.pc = "logging"
    /\ LET job == worker.job[1]
       IN log' = Append(log,
                   [req |-> job.req,
                    original_query |-> job.original_query,
                    rewritten_query |-> job.rewritten_query,
                    retrieved_context |-> job.context,
                    generated_answer |-> job.generation_results,
                    evaluation |-> worker.evaluation[1],
                    timestamp |-> Len(log) + 1])
    /\ worker' = IdleWorker
    /\ UNCHANGED <<reqs, queue, judge, ingestVars, citeVars, chunkVars, askVars>>

Worker == WorkerTake \/ (\E o \in JudgeOutcomes : WorkerJudge(o)) \/ WorkerLog

----------------------------------------------------------------------------
(* Inputs: the files handed to process_document *)

DocPool ==
    { <<Para(4, 3)>>,                      \* nothing long enough: no chunk
      <<Heading(1, 2), Para(2, 12)>>,      \* one chunk under a heading
      <<ListItem(3, 501)>>,                \* one element split in two
      <<Para(2, 12), Other(5, 9), ListItem(3, 501)>> }

\* where an external call of process_document fails, if any
IngestFailures == {"none", "missing", "convert", "embed", "upsert", "info"}
DeleteFailures == {"none", "scroll", "delete"}

NoDoc == [has |-> FALSE, doc |-> <<>>]
SomeDoc(d) == [has |-> TRUE, doc |-> d]

NoOp == [op |-> "none", source |-> "", doc |-> <<>>, result |-> "none",
         ids |-> <<>>, again |-> FALSE, upserts |-> 0, deletes |-> 0,
         returned |-> "", response |-> ""]

----------------------------------------------------------------------------
(* IngestionPipeline.process_document *)

\* how the call ends: the first failing step decides
ProcessResult(chunks, fail) ==
    IF fail = "missing" THEN "not_found"
    ELSE IF fail = "convert" THEN "convert_failed"
    ELSE IF Len(chunks) = 0 THEN "no_chunks"
    ELSE IF fail = "embed" THEN "embed_failed"
    ELSE IF fail = "upsert" \/ ~exists THEN "upsert_failed"
    ELSE IF fail = "info" THEN "info_failed"
    ELSE "ok"

\* MUTANT of Upserted: the points are written before the embeddings are known
\* to be complete
UpsertedBeforeEmbedding(result) == result \in {"ok", "info_failed", "embed_failed"}

\* results in which the upsert of step 5 was acknowledged
Upserted(result) == result \in {"ok", "info_failed"}

\* results in which step 2 (chunking) was reached
Chunked(result) == result \notin {"not_found", "convert_failed"}

\* what the caller of process_document observes: the function returns None at
\* lines 230 and 250 and at its end, and re-raises any exception of steps 1 to 5
ProcessReturn(result) ==
    IF result \in {"not_found", "no_chunks", "ok"} THEN "None" ELSE "raised"

\* ingest_document, api.py lines 38-56: the success message unless
\* process_document raised, then the error with the exception's text
IngestResponse(returned) ==
    IF returned = "raised" THEN "error" ELSE "message"

ProcessDocument(s, doc, fail) ==
    LET chunks == CreateSemanticChunksFromDocs(doc, s)
        result == ProcessResult(chunks, fail)
        again  == /\ lastOp.op = "ingest"
                  /\ lastOp.source = s
                  /\ lastOp.doc = doc
                  /\ Upserted(lastOp.result)
    IN /\ store' = IF Upserted(result) THEN Upsert(store, Range(chunks)) ELSE store
       /\ current' = IF Upserted(result)
                     THEN [current EXCEPT ![s] = SomeDoc(doc)]
                     ELSE current
       /\ lastOp' = [op |-> "ingest", source |-> s, doc |-> doc, result |-> result,
                     ids |-> IF Chunked(result) THEN IdsOf(chunks) ELSE <<>>,
                     again |-> again,
                     upserts |-> IF result \in {"ok", "info_failed", "upsert_failed"}
                                 THEN 1 ELSE 0,
                     deletes |-> 0,
                     returned |-> ProcessReturn(result),
                     response |-> IngestResponse(ProcessReturn(result))]
       /\ UNCHANGED <<exists, pcInit>>

(* IngestionPipeline.delete_document *)

\* MUTANT of DeleteResult: the delete call is made whatever the scroll found
DeleteResultNoCheck(found, fail) ==
    IF fail = "scroll" \/ ~exists THEN "scroll_failed"
    ELSE IF fail = "delete" THEN "delete_failed"
    ELSE "deleted"

\* how the call ends: the scroll of lines 98-109, the early return of lines
\* 111-113, the delete of lines 116-128
DeleteResult(found, fail) ==
    IF fail = "scroll" \/ ~exists THEN "scroll_failed"
    ELSE IF found = {} THEN "noop"
    ELSE IF fail = "delete" THEN "delete_failed"
    ELSE "deleted"

\* delete_document returns None at lines 113 and 129; a failing client call
\* raises out of it
DeleteReturn(result) ==
    IF result \in {"noop", "deleted"} THEN "None" ELSE "raised"

DeleteDocument(s, fail) ==
    LET result == DeleteResult(Scroll(store, s), fail)
    IN /\ store' = IF result = "deleted" THEN DeleteByFilter(store, s) ELSE store
       /\ current' = IF result = "deleted"
                     THEN [current EXCEPT ![s] = NoDoc]
                     ELSE current
       /\ lastOp' = [op |-> "delete", source |-> s, doc |-> <<>>, result |-> result,
                     ids |-> <<>>, again |-> FALSE, upserts |-> 0,
                     deletes |-> IF result \in {"deleted", "delete_failed"}
                                 THEN 1 ELSE 0,
                     returned |-> DeleteReturn(result),
                     response |-> ""]
       /\ UNCHANGED <<exists, pcInit>>

----------------------------------------------------------------------------
(* One constructed pipeline (api.py line 22, or main()) serving calls *)

IngestInit ==
    /\ exists = TRUE
    /\ store = {}
    /\ pcInit = [i \in Pipelines |-> "done"]
    /\ current = [s \in Sources |-> NoDoc]
    /\ lastOp = NoOp

Init ==
    /\ IngestInit
    /\ CiteIdle
    /\ ChunkIdle
    /\ AskIdle
    /\ EvalIdle

Ingest ==
    /\ \E s \in Sources, doc \in DocPool, fail \in IngestFailures :
           ProcessDocument(s, doc, fail)
    /\ UNCHANGED <<citeVars, chunkVars, askVars, evalVars>>

Delete ==
    /\ \E s \in Sources, fail \in DeleteFailures : DeleteDocument(s, fail)
    /\ UNCHANGED <<citeVars, chunkVars, askVars, evalVars>>

Next == Ingest \/ Delete

vars == <<ingestVars, citeVars, chunkVars, askVars, evalVars>>

Spec == Init /\ [][Next]_vars

----------------------------------------------------------------------------
(* IngestionPipeline.setup_qdrant_collection, run by concurrent constructors. *)
(* QdrantClient.recreate_collection is delete_collection followed by          *)
(* create_collection, two requests.                                           *)

SetupOp == [NoOp EXCEPT !.op = "setup"]

\* qd_client.get_collection: found, or the "Not found" branch
SetupCheck(i) ==
    /\ pcInit[i] = "start"
    /\ pcInit' = [pcInit EXCEPT ![i] = IF exists THEN "done" ELSE "recreate"]
    /\ lastOp' = SetupOp
    /\ UNCHANGED <<exists, store, current, citeVars, chunkVars, askVars, evalVars>>

\* recreate_collection, first request: drop the collection and its points
SetupRecreateDelete(i) ==
    /\ pcInit[i] = "recreate"
    /\ exists' = FALSE
    /\ store' = {}
    /\ pcInit' = [pcInit EXCEPT ![i] = "create"]
    /\ lastOp' = SetupOp
    /\ UNCHANGED <<current, citeVars, chunkVars, askVars, evalVars>>

\* recreate_collection, second request: create; a conflict with an existing
\* collection is an error, which setup_qdrant_collection does not catch
SetupRecreateCreate(i) ==
    /\ pcInit[i] = "create"
    /\ exists' = TRUE
    /\ pcInit' = [pcInit EXCEPT ![i] = IF exists THEN "failed" ELSE "done"]
    /\ lastOp' = SetupOp
    /\ UNCHANGED <<store, current, citeVars, chunkVars, askVars, evalVars>>

\* a constructed pipeline ingests
IngestAfterSetup(i) ==
    /\ pcInit[i] = "done"
    /\ \E s \in Sources, doc \in DocPool : ProcessDocument(s, doc, "none")
    /\ UNCHANGED <<citeVars, chunkVars, askVars, evalVars>>

InitSetup ==
    /\ exists = FALSE
    /\ store = {}
    /\ pcInit = [i \in Pipelines |-> "start"]
    /\ current = [s \in Sources |-> NoDoc]
    /\ lastOp = NoOp
    /\ CiteIdle
    /\ ChunkIdle
    /\ AskIdle
    /\ EvalIdle

NextSetup ==
    \E i \in Pipelines :
        \/ SetupCheck(i)
        \/ SetupRecreateDelete(i)
        \/ SetupRecreateCreate(i)
        \/ IngestAfterSetup(i)

SpecSetup == InitSetup /\ [][NextSetup]_vars

----------------------------------------------------------------------------
(* generate_answer's parsing, over every response text of the bound *)

InitCite ==
    /\ IngestInit
    /\ citeIn \in SeqsUpTo(Chars, MaxTextLen)
    /\ citeOut = NotParsed
    /\ ChunkIdle
    /\ AskIdle
    /\ EvalIdle

NextCite == ParseStep

SpecCite == InitCite /\ [][NextCite]_vars

----------------------------------------------------------------------------
(* create_semantic_chunks_from_docs, over every element stream of the bound. *)
(* The text of the element at position i is text number i; the lengths are   *)
(* those around MIN_CHUNK_WORDS, MAX_CHUNK_WORDS and its multiples.           *)

ElemLens ==
    {0, MIN_CHUNK_WORDS - 1, MIN_CHUNK_WORDS, MAX_CHUNK_WORDS, MAX_CHUNK_WORDS + 1,
     MAX_CHUNK_WORDS + MIN_CHUNK_WORDS, 2 * MAX_CHUNK_WORDS + MIN_CHUNK_WORDS - 2}

Elems(i) ==
    {Heading(i, n) : n \in {0, 2}}
        \cup {Para(i, n) : n \in ElemLens}
        \cup {ListItem(i, n) : n \in {MIN_CHUNK_WORDS, MAX_CHUNK_WORDS + 1}}
        \cup {Other(i, MIN_CHUNK_WORDS)}

RECURSIVE ElemStreams(_)
\* the element streams of exactly n elements
ElemStreams(n) ==
    IF n = 0 THEN {<<>>}
    ELSE {Append(d, el) : d \in ElemStreams(n - 1), el \in Elems(n)}

InitChunk ==
    /\ IngestInit
    /\ CiteIdle
    /\ chunkIn \in UNION {ElemStreams(n) : n \in 0..MaxElems}
    /\ chunkOut = NotChunked
    /\ AskIdle
    /\ EvalIdle

NextChunk == ChunkStep

SpecChunk == InitChunk /\ [][NextChunk]_vars

----------------------------------------------------------------------------
(* RAGService.ask, call after call, over a collection that ingestion filled *)

AskStores == {Range(CreateSemanticChunksFromDocs(d, "a.pdf")) : d \in DocPool}

InitAsk ==
    /\ exists = TRUE
    /\ store \in AskStores
    /\ pcInit = [i \in Pipelines |-> "done"]
    /\ current = [s \in Sources |-> NoDoc]
    /\ lastOp = NoOp
    /\ CiteIdle
    /\ ChunkIdle
    /\ AskIdle
    /\ EvalIdle

NextAsk ==
    \/ \E q \in Queries, resp \in RewriteResponses : AskRewrite(q, resp)
    \/ \E hits \in SearchResults(store, TOP_K), fail \in RetrieveFailures :
           AskRetrieve(hits, fail)
    \/ \E resp \in SynthResponses : AskGenerate(resp)

SpecAsk == InitAsk /\ [][NextAsk]_vars

----------------------------------------------------------------------------
(* The /ask handler serving MaxRequests requests, and the worker *)

HandlerRewrites == {r \in RewriteResponses : r.kind = "json_string"}
HandlerFailures == {"none", "search"}
HandlerSynths == {r \in SynthResponses : r.text # <<"a">>}

InitEval ==
    /\ exists = TRUE
    /\ store = Range(CreateSemanticChunksFromDocs(<<Heading(1, 2), Para(2, 12)>>, "a.pdf"))
    /\ pcInit = [i \in Pipelines |-> "done"]
    /\ current = [s \in Sources |-> NoDoc]
    /\ lastOp = NoOp
    /\ CiteIdle
    /\ ChunkIdle
    /\ AskIdle
    /\ EvalIdle

Handler(r) ==
    \/ \E q \in Queries, rewrite \in HandlerRewrites,
          hits \in SearchResults(store, TOP_K), fail \in HandlerFailures,
          synth \in HandlerSynths :
           HandleAsk(r, q, rewrite, hits, fail, synth)
    \/ Enqueue(r)
    \/ Respond(r)

NextEval ==
    \/ \E r \in Requests : Handler(r)
    \/ WorkerTake
    \/ \E o \in JudgeOutcomes : WorkerJudge(o)
    \/ WorkerLog

SpecEval == InitEval /\ [][NextEval]_vars

\* the worker is scheduled fairly
SpecEvalWorkerFair == SpecEval /\ WF_vars(Worker)

\* only the request handler is: the worker may be slow, or never run
SpecEvalHandlerFair ==
    SpecEval /\ \A r \in Requests : WF_vars(Enqueue(r)) /\ WF_vars(Respond(r))

----------------------------------------------------------------------------
(* Claims on ingestion *)

NoDuplicateIds == \A p, q \in store : p.id = q.id => p = q

\* C1: process_document run twice in a row on the same unmodified file yields
\* the same sequence of chunk ids both times, and the second run leaves the
\* vector store as the first run left it, with no two points of one id.
C1_IdempotentIngestion ==
    [][(lastOp'.op = "ingest" /\ lastOp'.again) =>
          /\ store' = store
          /\ Cardinality(store') = Cardinality(store)
          /\ Chunked(lastOp'.result) => lastOp'.ids = lastOp.ids
          /\ NoDuplicateIds']_vars

\* a second successful run of a file of several chunks
C1_Witness ==
    /\ lastOp.op = "ingest"
    /\ lastOp.again
    /\ lastOp.result = "ok"
    /\ Len(lastOp.ids) >= 2
    /\ Cardinality(store) >= 2

\* C2: the points stored for a source are none, or exactly the chunks of the
\* version of the source ingested last.
C2_NoneOrCurrentChunkSet ==
    \A s \in Sources :
        \/ Scroll(store, s) = {}
        \/ /\ current[s].has
           /\ Scroll(store, s) = Range(CreateSemanticChunksFromDocs(current[s].doc, s))

\* C3: under every interleaving of concurrent setups and of the upserts of
\* finished constructors, no setup step fails, the collection exists once a
\* caller is done, and no setup step removes a stored point.
C3_SetupSafeUnderConcurrency ==
    [][pcInit' # pcInit =>
          /\ \A i \in Pipelines : pcInit'[i] # "failed"
          /\ \A i \in Pipelines :
                 (pcInit[i] # "done" /\ pcInit'[i] = "done") => exists'
          /\ store \subseteq store']_vars

\* C5: a process_document call leaves the store unchanged or upserts the whole
\* chunk set of the document in one upsert; it issues no upsert and no delete
\* when conversion fails, embedding fails or there is no chunk.
C5_AllOrNothingIngestion ==
    [][lastOp'.op = "ingest" =>
          LET chunks == Range(CreateSemanticChunksFromDocs(lastOp'.doc, lastOp'.source))
          IN /\ \/ store' = store
                \/ /\ lastOp'.upserts = 1
                   /\ chunks \subseteq store'
                   /\ \A p \in store' \ chunks : p \in store
                   /\ \A p \in store \ store' : \E q \in chunks : q.id = p.id
             /\ lastOp'.result \in {"not_found", "convert_failed", "no_chunks",
                                    "embed_failed"}
                  => /\ store' = store
                     /\ lastOp'.upserts = 0
                     /\ lastOp'.deletes = 0
             /\ lastOp'.upserts <= 1
             /\ lastOp'.deletes = 0]_vars

\* an embedding failure on a store that already holds points
C5_WitnessEmbedFailed ==
    /\ lastOp.op = "ingest"
    /\ lastOp.result = "embed_failed"
    /\ store # {}

----------------------------------------------------------------------------
(* Claims on the query path *)

ResultFields ==
    {"original_query", "rewritten_query", "context", "answer", "cited_docs",
     "referenced_docs"}

C8_EmptyContextShortCircuit ==
    (call.pc = "returned" /\ call.context = <<>>) =>
        /\ call.synth_calls = 0
        /\ call.result[1].answer = NoInfoAnswer
        /\ call.result[1].cited_docs = <<>>

\* a call returned over an empty collection
C8_WitnessNoHits ==
    /\ call.pc = "returned"
    /\ store = {}
    /\ call.context = <<>>

RewriteFailed(kind) == kind \in {"error", "not_json", "json_not_object", "json_no_key"}

\* C9: when the rewrite call fails or its response is no object with the
\* rewritten query, retrieval is run on the original query and the result's
\* rewritten_query is the original query.
C9_RewriteFallback ==
    RewriteFailed(call.rewrite_kind) =>
        /\ call.pc \in {"retrieved", "returned"} => call.searched = call.original_query
        /\ call.pc = "returned" =>
              call.result[1].rewritten_query = call.result[1].original_query

\* a returned call whose rewrite response was no JSON, with hits retrieved
C9_WitnessUnparseable ==
    /\ call.pc = "returned"
    /\ call.rewrite_kind = "not_json"
    /\ call.context # <<>>
    /\ call.result[1].rewritten_query = "q"

IsPrefix(a, b) == Len(a) <= Len(b) /\ SubSeq(b, 1, Len(a)) = a

\* C6: with the worker scheduled fairly, every request answered by the handler
\* gets one record in the log, whatever the judge call did; no request has two
\* records, and the log only grows at its end.
C6_ExactlyOnceLogging ==
    /\ \A r \in Requests : (reqs[r].pc = "responded") ~> (LogCount(r) = 1)
    /\ [](\A r \in Requests : LogCount(r) <= 1)
    /\ [][IsPrefix(log, log')]_vars

\* two answered requests logged, one with the sentinel of a failed judge call,
\* one with a parsed evaluation
C6_WitnessLoggedBoth ==
    /\ \A r \in Requests : reqs[r].pc = "responded" /\ LogCount(r) = 1
    /\ \E i, j \in 1..Len(log) :
           /\ log[i].evaluation = SentinelEvaluation
           /\ log[j].evaluation = ParsedEvaluation

Queued(r) == \E i \in 1..Len(queue) : queue[i].req = r

\* C7: with no fairness for the worker, every request whose ask returned is
\* answered; the response carries ask's answer, cited_docs and referenced_docs,
\* and no step of the worker changes a request or its response.
C7_AnswerDecoupledFromJudging ==
    /\ \A r \in Requests : (reqs[r].pc = "asked") ~> (reqs[r].pc = "responded")
    /\ [](\A r \in Requests :
             reqs[r].pc = "responded" =>
                 LET res == reqs[r].result[1]
                 IN reqs[r].response = <<[answer |-> res.answer,
                                          cited_docs |-> res.cited_docs,
                                          referenced_docs |-> res.referenced_docs]>>)
    /\ [][(worker' # worker \/ log' # log) => reqs' = reqs]_vars

\* a request answered while its job has not been taken from the queue
C7_WitnessAnsweredBeforeJudging ==
    \E r \in Requests :
        /\ reqs[r].pc = "responded"
        /\ Queued(r)
        /\ LogCount(r) = 0

\* the text before the first delimiter, and the text after it
BeforeDelimiter(t) == Split(t, Delimiter)[1]
AfterDelimiter(t) == Drop(t, Len(BeforeDelimiter(t)) + Len(Delimiter))

\* a line with one leading bullet marker "-" removed, what follows left as it is
WithoutBullet(line) ==
    IF line # <<>> /\ Head(line) = "-" THEN Strip(Tail(line)) ELSE line

RECURSIVE NamedLines(_, _)
NamedLines(lines, k) ==
    IF k > Len(lines) THEN <<>>
    ELSE IF Strip(lines[k]) = <<>> THEN NamedLines(lines, k + 1)
    ELSE <<WithoutBullet(Strip(lines[k]))>> \o NamedLines(lines, k + 1)

\* C10: with the delimiter present the answer is the text before it and
\* cited_docs lists, in order, every non-blank line after it with its leading
\* bullet marker removed and the document name intact; without the delimiter
\* the whole response is the answer and cited_docs is empty (surrounding
\* whitespace aside).
C10_CitationParsing ==
    citeOut.done =>
        IF Contains(citeIn, Delimiter)
        THEN /\ citeOut.answer = Strip(BeforeDelimiter(citeIn))
             /\ citeOut.cited_docs =
                    NamedLines(Split(AfterDelimiter(citeIn), <<"\n">>), 1)
        ELSE /\ citeOut.answer = Strip(citeIn)
             /\ citeOut.cited_docs = <<>>

\* C15: a delete_document call on a source of which the store holds no point
\* issues no delete call and leaves the store as it was; when its scroll
\* succeeds it returns without raising.
C15_DeleteNoOp ==
    [][(lastOp'.op = "delete" /\ Scroll(store, lastOp'.source) = {}) =>
          /\ lastOp'.deletes = 0
          /\ store' = store
          /\ lastOp'.result \in {"noop", "scroll_failed"}
          /\ lastOp'.result = "noop" => lastOp'.returned = "None"]_vars

\* a no-op deletion on a store holding points of another source
C15_WitnessNoOp ==
    /\ lastOp.op = "delete"
    /\ lastOp.result = "noop"
    /\ lastOp.deletes = 0
    /\ Scroll(store, lastOp.source) = {}
    /\ store # {}

\* C16: a delete_document call that returns, on a store holding at least one
\* point of its source, leaves no point of that source and leaves the points
\* of every other source as they were.
C16_DeleteExactlyOneSource ==
    [][(/\ lastOp'.op = "delete"
        /\ Scroll(store, lastOp'.source) # {}
        /\ lastOp'.returned = "None")
          => /\ lastOp'.result = "deleted"
             /\ lastOp'.deletes = 1
             /\ Scroll(store', lastOp'.source) = {}
             /\ \A s \in Sources \ {lastOp'.source} :
                    Scroll(store', s) = Scroll(store, s)
             /\ store' \subseteq store]_vars

\* a deletion that removed a source's points and left those of the other source
C16_WitnessOtherSourceKept ==
    /\ lastOp.op = "delete"
    /\ lastOp.result = "deleted"
    /\ Scroll(store, lastOp.source) = {}
    /\ \E s \in Sources \ {lastOp.source} : Cardinality(Scroll(store, s)) >= 2

\* the three outcomes told apart: a document ingested with its chunks, a
\* document with no chunk, a step of the pipeline that failed
OutcomeClass(result) ==
    IF result = "ok" THEN "ingested"
    ELSE IF result = "no_chunks" THEN "no_content"
    ELSE IF result \in {"convert_failed", "embed_failed", "upsert_failed"} THEN "failed"
    ELSE "other"

\* C14: two process_document calls that end in different outcomes among
\* ingested, no content and failed differ in what process_document returns to
\* its caller and in the response of the /ingest handler wrapping it.
C14_DistinguishableOutcomes ==
    [][(/\ lastOp.op = "ingest"
        /\ lastOp'.op = "ingest"
        /\ OutcomeClass(lastOp.result) # "other"
        /\ OutcomeClass(lastOp'.result) # "other"
        /\ OutcomeClass(lastOp.result) # OutcomeClass(lastOp'.result))
          => /\ lastOp.returned # lastOp'.returned
             /\ lastOp.response # lastOp'.response]_vars

----------------------------------------------------------------------------
(* Claims on the judge *)

\* the outcomes of the judge model call that are no evaluation object: a service
\* error, a text that is no JSON, JSON of another shape
JudgeFailures == {"error", "not_json", "json_other"}

\* C13: whenever the judge model call ends in a service error or in a response
\* that is not the evaluation object asked for, judge_answer raises nothing and
\* the task goes on to log the sentinel evaluation (all scores 0, both issue
\* tags JUDGE_FAILURE).
C13_JudgeSentinelOnFailure ==
    [][\A o \in JudgeFailures :
          WorkerJudge(o) =>
              /\ worker'.pc = "logging"
              /\ worker'.evaluation = <<SentinelEvaluation>>]_vars

----------------------------------------------------------------------------
(* Claims on the chunker *)

\* the words of the text a chunk carries (the Source/Section prefix is off)
ChunkWords(c) == WordCount(c.text.body)

\* C11: no chunk returned by create_semantic_chunks_from_docs has more than
\* MAX_CHUNK_WORDS words.
C11_MaxChunkSize ==
    chunkOut.done =>
        \A i \in 1..Len(chunkOut.chunks) :
            ChunkWords(chunkOut.chunks[i]) <= MAX_CHUNK_WORDS

\* an element of more than twice the maximum, chunked into three chunks or more
C11_WitnessSplitInThree ==
    /\ chunkOut.done
    /\ \E i \in 1..Len(chunkIn) :
           /\ chunkIn[i].kind = "text"
           /\ WordCount(chunkIn[i].text) > 2 * MAX_CHUNK_WORDS
    /\ Len(chunkOut.chunks) >= 3

\* C12: no chunk returned by create_semantic_chunks_from_docs has fewer than
\* MIN_CHUNK_WORDS words, the sub-chunks of a split element included.
C12_MinChunkSize ==
    chunkOut.done =>
        \A i \in 1..Len(chunkOut.chunks) :
            ChunkWords(chunkOut.chunks[i]) >= MIN_CHUNK_WORDS

\* the element a chunk was cut from: its text number is its position
ElementOf(c) == chunkIn[c.text.body.base]

\* the text of the last heading element before position i, or the placeholder
HeadingBefore(i) ==
    LET before == {j \in 1..(i - 1) : chunkIn[j].kind = "heading"}
    IN IF before = {} THEN DefaultHeading
       ELSE chunkIn[CHOOSE j \in before : \A k \in before : k <= j].text

\* an element that is chunked: a text or list item of MIN_CHUNK_WORDS words or more
Qualifies(el) ==
    el.kind \in {"text", "list"} /\ WordCount(el.text) >= MIN_CHUNK_WORDS

\* the sub-chunks of a qualifying element: its words in runs of MAX_CHUNK_WORDS
Pieces(el) == (WordCount(el.text) + MAX_CHUNK_WORDS - 1) \div MAX_CHUNK_WORDS

RECURSIVE PiecesUpTo(_)
PiecesUpTo(i) ==
    IF i = 0 THEN 0
    ELSE PiecesUpTo(i - 1) + (IF Qualifies(chunkIn[i]) THEN Pieces(chunkIn[i]) ELSE 0)

\* C17: the chunks of a document carry chunk_index 0, 1, ..., n-1 in emission
\* order, one index per sub-chunk of each qualifying element and none for a
\* discarded element or a heading; no chunk is cut from a heading element; each
\* chunk's heading is the text of the last heading element before its element,
\* or the placeholder when there is none.
C17_NumberingAndHeadings ==
    chunkOut.done =>
        /\ Len(chunkOut.chunks) = PiecesUpTo(Len(chunkIn))
        /\ \A i \in 1..Len(chunkOut.chunks) :
               LET c == chunkOut.chunks[i]
               IN /\ c.chunk_index = i - 1
                  /\ c.chunk_index >= PiecesUpTo(c.text.body.base - 1)
                  /\ c.chunk_index < PiecesUpTo(c.text.body.base)
                  /\ ElementOf(c).kind \in {"text", "list"}
                  /\ c.heading = HeadingBefore(c.text.body.base)

\* a heading, a list item split in two under it, then a paragraph: three
\* chunks, the third with index 2 and still under that heading
C17_WitnessSplitUnderHeading ==
    /\ chunkOut.done
    /\ Len(chunkIn) = 3
    /\ chunkIn[1].kind = "heading"
    /\ chunkIn[2].kind = "list"
    /\ Pieces(chunkIn[2]) = 2
    /\ chunkIn[3].kind = "text"
    /\ Len(chunkOut.chunks) = 3
    /\ chunkOut.chunks[3].chunk_index = 2
    /\ chunkOut.chunks[3].heading = chunkIn[1].text

====
